---- MODULE Spec2Model ----
(***************************************************************************)
(* A model of the trait registry of mabe::Module (source/core/Module.h)    *)
(* and of the macro preprocessor and trait-query builders of               *)
(* mabe::MABEScript (source/core/MABEScript.hpp).                          *)
(*                                                                         *)
(* Strings are sequences of one-character strings.  String positions are   *)
(* 0-based as in the C++ code; At(s, k) reads the character at position k. *)
(***************************************************************************)
EXTENDS Integers, Sequences, FiniteSets, TLC

\* ---------------------------------------------------------------- bounds
MaxLen == 6        \* longest input string given to Preprocess
MaxDecls == 3      \* most trait declarations made by one module
MaxOrgs == 2       \* most organisms in a population or collection

\* ------------------------------------------------------ string helpers
At(s, k) == s[k + 1]

\* std::string::erase(pos, n)
Erase(s, pos, n) == SubSeq(s, 1, pos) \o SubSeq(s, pos + n + 1, Len(s))

\* std::string::replace(pos, n, text)
Replace(s, pos, n, text) ==
  SubSeq(s, 1, pos) \o text \o SubSeq(s, pos + n + 1, Len(s))

\* emp::view_string_range(str, start, end): the characters [start, end)
view_string_range(s, start, end) == SubSeq(s, start + 1, end)

Alphabet == {"$", "{", "}", "a"}
Strings(n) == UNION { [1..k -> Alphabet] : k \in 0..n }

\* The texts the embedded evaluator (Emplode::Execute) may hand back.  The
\* evaluator is outside this code; each call may return any of them.
EvalResults ==
  { <<>>, <<"b">>, <<"$", "$">>, <<"$", "{", "b", "}">> }

\* emp::find_paren_match(str, start_pos, open, close, skip_quotes = false):
\* position of the close that balances the open at start_pos, or start_pos
\* itself when start_pos holds no open or no balancing close exists.
RECURSIVE paren_scan(_, _, _, _, _, _)
paren_scan(s, start_pos, pos, open_count, open, close) ==
  IF pos >= Len(s) THEN start_pos
  ELSE IF At(s, pos) = open
         THEN paren_scan(s, start_pos, pos + 1, open_count + 1, open, close)
  ELSE IF At(s, pos) = close
         THEN IF open_count - 1 = 0
                THEN pos
                ELSE paren_scan(s, start_pos, pos + 1, open_count - 1, open, close)
  ELSE paren_scan(s, start_pos, pos + 1, open_count, open, close)

find_paren_match(s, start_pos, open, close) ==
  IF At(s, start_pos) # open THEN start_pos
  ELSE paren_scan(s, start_pos, start_pos + 1, 1, open, close)

\* ----------------------------------------------------------------- state
VARIABLES
  in_string,    \* Preprocess: the argument
  out_string,   \* Preprocess: the working copy that is returned
  i,            \* Preprocess: the scan index of the for loop
  pc,           \* Preprocess: "loop" while scanning, "done" once returned
  calls,        \* texts handed to Execute so far, in call order
  prov,         \* per character of out_string: its position in in_string
                \* (1-based), or 0 for a character the evaluator returned
  splices,      \* one record per Execute call: where its result was put
  kept,         \* positions of the '$' characters left by compressing "$$"
  last          \* the loop branch taken by the latest step, with the
                \* values it read

pvars == <<in_string, out_string, i, pc, calls, prov, splices, kept, last>>

VARIABLES
  heap,         \* Module: the TraitInfo objects made by emp::NewPtr, in order
  trait_map,    \* Module: trait name -> index of its object in heap, 0 = none
  errors,       \* Module: the errors list
  ndecl,        \* number of AddTrait declarations that built the registry
                \* this module holds (those made on the module it was
                \* copied or moved from included)
  declared,     \* the names given in those declarations
  supplied,     \* the objects in heap (by index) for which the caller gave
                \* a default value, in the declaration or by SetDefault
  mlast         \* the latest Module operation, with what it saw and returned

mvars == <<heap, trait_map, errors, ndecl, declared, supplied, mlast>>

VARIABLES
  q             \* MABEScript: the latest query call: its arguments, what it
                \* did on the way and what came back

qvars == <<q>>
vars == <<pvars, mvars, qvars>>

NoStep == [act |-> "none", i |-> 0, out |-> <<>>, end_pos |-> 0,
           new_text |-> <<>>, ncalls |-> 0, iters |-> 0]

PreInit ==
  /\ in_string \in Strings(MaxLen)
  /\ out_string = in_string                          \* line 61
  /\ i = 0                                           \* line 64
  /\ pc = "loop"
  /\ calls = <<>>
  /\ prov = [k \in 1..Len(in_string) |-> k]
  /\ splices = <<>>
  /\ kept = {}
  /\ last = NoStep

Step(a, e, t) == [act |-> a, i |-> i, out |-> out_string, end_pos |-> e,
                  new_text |-> t, ncalls |-> Len(calls),
                  iters |-> last.iters + (IF a = "LoopExit" THEN 0 ELSE 1)]

\* line 64: the loop condition fails; line 82 returns out_string.
LoopExit ==
  /\ UNCHANGED <<mvars, qvars>>
  /\ pc = "loop"
  /\ ~(i < Len(out_string))
  /\ pc' = "done"
  /\ last' = Step("LoopExit", 0, <<>>)
  /\ UNCHANGED <<in_string, out_string, i, calls, prov, splices, kept>>

\* line 65: not a '$'; continue (++i).
SkipNonDollar ==
  /\ UNCHANGED <<mvars, qvars>>
  /\ pc = "loop"
  /\ i < Len(out_string)
  /\ At(out_string, i) # "$"
  /\ i' = i + 1
  /\ last' = Step("SkipNonDollar", 0, <<>>)
  /\ UNCHANGED <<in_string, out_string, pc, calls, prov, splices, kept>>

\* line 66: fewer than three characters are left from the '$'; break.
BreakNoRoom ==
  /\ UNCHANGED <<mvars, qvars>>
  /\ pc = "loop"
  /\ i < Len(out_string)
  /\ At(out_string, i) = "$"
  /\ Len(out_string) <= i + 2
  /\ pc' = "done"
  /\ last' = Step("BreakNoRoom", 0, <<>>)
  /\ UNCHANGED <<in_string, out_string, i, calls, prov, splices, kept>>

\* a variant that scans the compressed '$' again
CollapseNext_Stay(idx) == idx

\* where the for loop's ++i leaves the index after a "$$" was compressed
CollapseNext(idx) == idx + 1

\* lines 67-70: "$$" is compressed into one '$'; continue (++i).
CollapseDollar ==
  /\ UNCHANGED <<mvars, qvars>>
  /\ pc = "loop"
  /\ i < Len(out_string)
  /\ At(out_string, i) = "$"
  /\ ~(Len(out_string) <= i + 2)
  /\ At(out_string, i + 1) = "$"
  /\ out_string' = Erase(out_string, i, 1)
  /\ prov' = Erase(prov, i, 1)
  /\ kept' = kept \cup {i}
  /\ i' = CollapseNext(i)
  /\ last' = Step("CollapseDollar", 0, <<>>)
  /\ UNCHANGED <<in_string, pc, calls, splices>>

\* line 71: '$' followed by neither '$' nor '{'; continue (++i).
SkipNoBrace ==
  /\ UNCHANGED <<mvars, qvars>>
  /\ pc = "loop"
  /\ i < Len(out_string)
  /\ At(out_string, i) = "$"
  /\ ~(Len(out_string) <= i + 2)
  /\ At(out_string, i + 1) # "$"
  /\ At(out_string, i + 1) # "{"
  /\ i' = i + 1
  /\ last' = Step("SkipNoBrace", 0, <<>>)
  /\ UNCHANGED <<in_string, out_string, pc, calls, prov, splices, kept>>

\* a variant that skips the unmatched "${" and goes on scanning
NoEndBrace_Continue ==
  /\ UNCHANGED <<mvars, qvars>>
  /\ pc = "loop"
  /\ i < Len(out_string)
  /\ At(out_string, i) = "$"
  /\ ~(Len(out_string) <= i + 2)
  /\ At(out_string, i + 1) = "{"
  /\ LET end_pos == find_paren_match(out_string, i + 1, "{", "}") IN
       /\ end_pos = i + 1
       /\ last' = Step("NoEndBrace", end_pos, <<>>)
  /\ i' = i + 1
  /\ UNCHANGED <<in_string, out_string, pc, calls, prov, splices, kept>>

\* lines 74-75: "${" without an end brace; return out_string as it is.
NoEndBrace ==
  /\ UNCHANGED <<mvars, qvars>>
  /\ pc = "loop"
  /\ i < Len(out_string)
  /\ At(out_string, i) = "$"
  /\ ~(Len(out_string) <= i + 2)
  /\ At(out_string, i + 1) = "{"
  /\ LET end_pos == find_paren_match(out_string, i + 1, "{", "}") IN
       /\ end_pos = i + 1
       /\ last' = Step("NoEndBrace", end_pos, <<>>)
  /\ pc' = "done"
  /\ UNCHANGED <<in_string, out_string, i, calls, prov, splices, kept>>

\* line 76: the text handed to Execute
EvalArg(s, idx, end_pos) == view_string_range(s, idx + 2, end_pos)

\* a variant that leaves the closing brace in place
ReplaceSpan_KeepBrace(s, idx, end_pos, new_text) ==
  Replace(s, idx, end_pos - idx, new_text)

\* line 77: out_string.replace(i, end_pos-i+1, new_text)
ReplaceSpan(s, idx, end_pos, new_text) ==
  Replace(s, idx, end_pos - idx + 1, new_text)

\* a variant that goes back to the start of the spliced-in text
ResumeIndex_Rescan(idx, new_text) == idx

\* a variant without line 79: only the for loop's ++i
ResumeIndex_NoAdvance(idx, new_text) == idx + 1

\* line 79 followed by the for loop's ++i
ResumeIndex(idx, new_text) == (idx + Len(new_text)) + 1

\* lines 74-79: "${...}" is evaluated and replaced by the result.
EvalTag ==
  /\ UNCHANGED <<mvars, qvars>>
  /\ pc = "loop"
  /\ i < Len(out_string)
  /\ At(out_string, i) = "$"
  /\ ~(Len(out_string) <= i + 2)
  /\ At(out_string, i + 1) = "{"
  /\ LET end_pos == find_paren_match(out_string, i + 1, "{", "}") IN
       /\ end_pos # i + 1
       /\ \E new_text \in EvalResults :
            /\ calls' = Append(calls, EvalArg(out_string, i, end_pos))
            /\ out_string' = ReplaceSpan(out_string, i, end_pos, new_text)
            /\ prov' = ReplaceSpan(prov, i, end_pos,
                                   [k \in 1..Len(new_text) |-> 0])
            /\ splices' = Append(splices, [pos |-> i, text |-> new_text])
            /\ i' = ResumeIndex(i, new_text)
            /\ last' = Step("EvalTag", end_pos, new_text)
  /\ UNCHANGED <<in_string, pc, kept>>


Preprocess ==
  \/ LoopExit
  \/ SkipNonDollar
  \/ BreakNoRoom
  \/ CollapseDollar
  \/ SkipNoBrace
  \/ NoEndBrace
  \/ EvalTag

\* ------------------------------------------------------- Module (Module.h)
Names == {"x", "y"}
Descs == {"d"}
Values == {"v"}

\* TraitInfo::Access, lines 53-59
Access == {"UNKNOWN", "OWNED", "SHARED", "REQUIRED", "PRIVATE"}

\* The value types T for which AddTrait<T> can be instantiated: line 200
\* builds the object from (in_name, desc), which selects the constructor
\* TypedTraitInfo(in_name, in_default) of line 120 and so needs T to be
\* constructible from a std::string.
TraitTypes == {"std::string"}

\* TraitInfo's member initialisers, lines 48-60
TraitInfo == [name |-> "", desc |-> "", type |-> "", access |-> "UNKNOWN",
              has_default |-> FALSE, default_value |-> ""]

\* TypedTraitInfo(in_name), lines 114-118
TypedTraitInfo1(T, in_name) ==
  [TraitInfo EXCEPT !.name = in_name, !.type = T, !.has_default = FALSE]

\* TypedTraitInfo(in_name, in_default), lines 120-125
TypedTraitInfo2(T, in_name, in_default) ==
  [TraitInfo EXCEPT !.name = in_name, !.type = T,
                    !.default_value = in_default, !.has_default = TRUE]

\* TypedTraitInfo::HasDefault, line 127
HasDefault(info) == info.has_default

\* TypedTraitInfo::SetDefault, lines 129-133
SetDefault(info, in_default) ==
  [info EXCEPT !.default_value = in_default, !.has_default = TRUE]

\* emp::Has(trait_map, in_name)
Has(tm, in_name) == tm[in_name] # 0

\* Module::AddError, lines 139-142
AddError(errs, msg) == Append(errs, msg)

\* a variant of lines 197-199 that records the error without the test
DuplicateCheck_Always(tm, errs, in_name) ==
  AddError(errs, <<"duplicate trait", in_name>>)

\* lines 197-199: the errors list after the duplicate test
DuplicateCheck(tm, errs, in_name) ==
  IF Has(tm, in_name)
    THEN AddError(errs, <<"duplicate trait", in_name>>)
    ELSE errs

\* Module() : name(""), line 145: errors and trait_map are empty.  A module
\* made by the copy or the move constructor starts with what its argument
\* holds: CopyConstruct and MoveConstruct below go over to such a module.
ModuleInit ==
  /\ heap = <<>>
  /\ trait_map = [n \in Names |-> 0]
  /\ errors = <<>>
  /\ ndecl = 0
  /\ declared = {}
  /\ supplied = {}
  /\ mlast = [op |-> "none", name |-> "", access |-> "UNKNOWN",
              dup |-> FALSE, prev_access |-> "UNKNOWN",
              errors_before |-> <<>>, ret |-> 0]

\* what a declaration saw before it acted, and the handle it returns
Declared(op, access, in_name) ==
  [op |-> op, name |-> in_name, access |-> access,
   dup |-> Has(trait_map, in_name),
   prev_access |-> IF Has(trait_map, in_name)
                     THEN heap[trait_map[in_name]].access
                     ELSE "UNKNOWN",
   errors_before |-> errors,
   ret |-> Len(heap) + 1]

\* what an operation other than a declaration saw before it acted
Operated(op) ==
  [op |-> op, name |-> "", access |-> "UNKNOWN", dup |-> FALSE,
   prev_access |-> "UNKNOWN", errors_before |-> errors, ret |-> 0]

\* AddTrait<T>(access, in_name, desc), lines 193-204.  with_default is TRUE
\* when the caller is the four-argument overload, which applies SetDefault
\* to the returned object (line 213).
AddTraitBody(op, T, access, in_name, desc, with_default, default_val) ==
  /\ Len(heap) < MaxDecls
  /\ errors' = DuplicateCheck(trait_map, errors, in_name)
  /\ LET new_obj == [TypedTraitInfo2(T, in_name, desc)
                       EXCEPT !.access = access]
         obj == IF with_default THEN SetDefault(new_obj, default_val)
                                ELSE new_obj
     IN  /\ heap' = Append(heap, obj)
         /\ trait_map' = [trait_map EXCEPT ![in_name] = Len(heap) + 1]
  /\ ndecl' = ndecl + 1
  /\ supplied' = IF with_default THEN supplied \cup {Len(heap) + 1}
                                 ELSE supplied
  /\ mlast' = Declared(op, access, in_name)
  /\ declared' = declared \cup {in_name}
  /\ UNCHANGED <<pvars, qvars>>

\* lines 193-204
AddTrait ==
  \E T \in TraitTypes, access \in Access, n \in Names, d \in Descs :
    AddTraitBody("AddTrait", T, access, n, d, FALSE, "")

\* lines 208-214
AddTraitDefault ==
  \E T \in TraitTypes, access \in Access, n \in Names, d \in Descs,
     v \in Values :
    AddTraitBody("AddTraitDefault", T, access, n, d, TRUE, v)

\* lines 218-221
AddPrivateTrait ==
  \E T \in TraitTypes, n \in Names, d \in Descs, v \in Values :
    AddTraitBody("AddPrivateTrait", T, "PRIVATE", n, d, TRUE, v)

\* lines 225-228
AddOwnedTrait ==
  \E T \in TraitTypes, n \in Names, d \in Descs, v \in Values :
    AddTraitBody("AddOwnedTrait", T, "OWNED", n, d, TRUE, v)

\* lines 233-236
AddSharedTrait ==
  \E T \in TraitTypes, n \in Names, d \in Descs :
    AddTraitBody("AddSharedTrait", T, "SHARED", n, d, FALSE, "")

\* lines 237-240
AddSharedTraitDefault ==
  \E T \in TraitTypes, n \in Names, d \in Descs, v \in Values :
    AddTraitBody("AddSharedTraitDefault", T, "SHARED", n, d, TRUE, v)

\* lines 243-246
AddRequiredTrait ==
  \E T \in TraitTypes, n \in Names, d \in Descs :
    AddTraitBody("AddRequiredTrait", T, "REQUIRED", n, d, FALSE, "")

\* SetDefault called on a handle that AddTrait returned, lines 129-133
CallSetDefault ==
  \E h \in 1..Len(heap), v \in Values :
    /\ heap' = [heap EXCEPT ![h] = SetDefault(heap[h], v)]
    /\ mlast' = [Operated("SetDefault") EXCEPT !.ret = h,
                                                !.name = heap[h].name]
    /\ supplied' = supplied \cup {h}
    /\ UNCHANGED <<trait_map, errors, ndecl, declared>>
    /\ UNCHANGED <<pvars, qvars>>

\* Module(const Module &) = default, line 146, with this module as the
\* argument; from here on the model follows the new module.  It holds a
\* copy of the errors vector and of the trait_map; the map holds pointers,
\* so both modules refer to the same TraitInfo objects.
CopyConstruct ==
  /\ mlast' = Operated("Copy")
  /\ UNCHANGED <<heap, trait_map, errors, ndecl, declared, supplied>>
  /\ UNCHANGED <<pvars, qvars>>

\* Module(Module &&) = default, line 147, with this module as the argument;
\* from here on the model follows the new module, which has taken over the
\* errors vector and the trait_map.
MoveConstruct ==
  /\ mlast' = Operated("MoveTo")
  /\ UNCHANGED <<heap, trait_map, errors, ndecl, declared, supplied>>
  /\ UNCHANGED <<pvars, qvars>>

\* Module(Module &&) = default, line 147, with this module as the argument;
\* the model stays with this module.  The new module has taken over the
\* errors vector and the trait_map and this module is left with both empty
\* (the state in which the vector's and the map's move constructors leave
\* their argument).  The TraitInfo objects stay where they are, so handles
\* returned earlier remain usable.
MoveFrom ==
  /\ errors' = <<>>
  /\ trait_map' = [n \in Names |-> 0]
  /\ ndecl' = 0
  /\ declared' = {}
  /\ mlast' = Operated("MoveFrom")
  /\ UNCHANGED <<heap, supplied>>
  /\ UNCHANGED <<pvars, qvars>>

ModuleNext ==
  \/ AddTrait
  \/ AddTraitDefault
  \/ AddPrivateTrait
  \/ AddOwnedTrait
  \/ AddSharedTrait
  \/ AddSharedTraitDefault
  \/ AddRequiredTrait
  \/ CallSetDefault
  \/ CopyConstruct
  \/ MoveConstruct
  \/ MoveFrom

\* Preprocess is not running
PreIdle ==
  /\ in_string = <<>>
  /\ out_string = <<>>
  /\ i = 0
  /\ pc = "done"
  /\ calls = <<>>
  /\ prov = <<>>
  /\ splices = <<>>
  /\ kept = {}
  /\ last = NoStep

\* ------------------------------------- trait queries (MABEScript.hpp)
\* Preprocess as a function, for a caller inside this class: the same loop
\* as the actions above, run to its return, with an evaluator that returns
\* the text r on every call.  Yields the returned string and the texts that
\* were handed to Execute.
RECURSIVE PreprocessFrom(_, _, _, _)
PreprocessFrom(out, idx, cs, r) ==
  IF ~(idx < Len(out)) THEN [out |-> out, calls |-> cs]
  ELSE IF At(out, idx) # "$" THEN PreprocessFrom(out, idx + 1, cs, r)
  ELSE IF Len(out) <= idx + 2 THEN [out |-> out, calls |-> cs]
  ELSE IF At(out, idx + 1) = "$"
         THEN PreprocessFrom(Erase(out, idx, 1), CollapseNext(idx), cs, r)
  ELSE IF At(out, idx + 1) # "{" THEN PreprocessFrom(out, idx + 1, cs, r)
  ELSE LET end_pos == find_paren_match(out, idx + 1, "{", "}") IN
         IF end_pos = idx + 1 THEN [out |-> out, calls |-> cs]
         ELSE PreprocessFrom(ReplaceSpan(out, idx, end_pos, r),
                             ResumeIndex(idx, r),
                             Append(cs, EvalArg(out, idx, end_pos)), r)

PreprocessRun(str, r) == PreprocessFrom(str, 0, <<>>, r)

\* The DataLayout of the queried container: a numeric trait "x" and a
\* non-numeric (string) trait "s".
LayoutNames == { <<"x">>, <<"s">> }
HasName(name) == name \in LayoutNames
IsNumeric(name) == name = <<"x">>

XValues == {0, 1, 2}
SValues == {"p", "q"}
Organisms == [x : XValues, s : SValues]
Containers == UNION { [1..n -> Organisms] : n \in 0..MaxOrgs }

\* emp::is_identifier: a non-empty run of letters, digits and '_' that does
\* not start with a digit (the strings here hold no digits).
IdChars == {"a", "b", "x", "s"}
is_identifier(str) ==
  Len(str) > 0 /\ \A k \in 1..Len(str) : str[k] \in IdChars

\* The raw trait/equation strings given to the query functions, and the
\* texts the evaluator returns while they are preprocessed.
Equations ==
  { <<"x">>, <<"s">>, <<"$", "{", "a", "}">>, <<"x", "$", "{", "a", "}">>,
    <<"x", ">", "0">>, <<"$", "$", "$", "$", "x">> }
QueryEvalResults == { <<"x">>, <<"s">>, <<>> }

\* Texts (std::string values) are kept by what they spell:
\*   num   the decimal text of a number        (emp::to_string)
\*   lit   the quoted literal of a string      (emp::to_literal, line 137)
\*   stat  the text of a statistic that is not computed here
\*   empty the empty string
NumText(n) == [kind |-> "num", n |-> n]
LitText(str) == [kind |-> "lit", s |-> str]
StatText(mode, vals) == [kind |-> "stat", mode |-> mode, vals |-> vals]
EmptyText == [kind |-> "empty"]

\* emp::from_string<double>: the number the text spells, 0 when it spells
\* none.
from_string_double(text) ==
  CASE text.kind = "num" -> [type |-> "double", val |-> NumText(text.n)]
    [] text.kind = "stat" -> [type |-> "double", val |-> text]
    [] OTHER -> [type |-> "double", val |-> NumText(0)]

StringResult(text) == [type |-> "string", val |-> text]

\* TO_T(), line 161: 0.0 or the empty string
ZeroOf(TO_T) ==
  IF TO_T = "double" THEN [type |-> "double", val |-> NumText(0)]
                     ELSE StringResult(EmptyText)

ToTypes == {"double", "std::string"}
FromTypes == {"Population", "Collection"}

\* default values handed to BuildTraitFunction
DefaultsOf(TO_T) ==
  IF TO_T = "double"
    THEN { [type |-> "double", val |-> NumText(0)],
           [type |-> "double", val |-> NumText(7)] }
    ELSE { StringResult(EmptyText), StringResult(LitText("none")) }

\* The mode strings of lines 89-108 that are used here, and two strings
\* that name no reducer.
KnownModes ==
  {"", "0", "unique", "richness", "mode", "min", "max", "min_id", "max_id",
   "ave", "mean", "median", "variance", "stddev", "sum", "total", "entropy"}
UnknownModes == {"bogus", "average"}
Modes == KnownModes \cup UnknownModes

\* emp::BuildCollectFun<DATA_T, Collection>(mode, get_fun): whether a
\* reducer comes back, or an empty std::function (tested on line 159).
HasCollectFun(mode) == mode \in KnownModes

SeqMin(vals) == CHOOSE v \in {vals[k] : k \in 1..Len(vals)} :
                  \A k \in 1..Len(vals) : v <= vals[k]
SeqMax(vals) == CHOOSE v \in {vals[k] : k \in 1..Len(vals)} :
                  \A k \in 1..Len(vals) : v >= vals[k]
FirstIndex(vals, v) == CHOOSE k \in 1..Len(vals) :
                         vals[k] = v /\ \A j \in 1..(k - 1) : vals[j] # v
RECURSIVE SeqSum(_)
SeqSum(vals) == IF vals = <<>> THEN 0 ELSE Head(vals) + SeqSum(Tail(vals))

\* The reducer BuildCollectFun returns for a known mode, applied to the
\* per-organism values of a container; numeric is TRUE for DATA_T = double.
\* The text it returns is computed for the index, count and extremum modes
\* over a non-empty container and kept as a stat text otherwise.
Reduce(mode, vals, numeric) ==
  IF vals = <<>> THEN StatText(mode, vals)
  ELSE CASE mode \in {"", "0"} ->
              IF numeric THEN NumText(vals[1]) ELSE vals[1]
         [] mode \in {"unique", "richness"} ->
              NumText(Cardinality({vals[k] : k \in 1..Len(vals)}))
         [] mode = "min" /\ numeric -> NumText(SeqMin(vals))
         [] mode = "max" /\ numeric -> NumText(SeqMax(vals))
         [] mode = "min_id" /\ numeric ->
              NumText(FirstIndex(vals, SeqMin(vals)) - 1)
         [] mode = "max_id" /\ numeric ->
              NumText(FirstIndex(vals, SeqMax(vals)) - 1)
         [] mode \in {"sum", "total"} /\ numeric -> NumText(SeqSum(vals))
         [] OTHER -> StatText(mode, vals)

\* The function dm_parser.BuildMathFunction compiles (line 50), applied to
\* one organism.  A bare numeric trait name reads that trait and "x>0"
\* compares it; the value of any other expression is the parser's business
\* and is kept at 0.
MathValue(equation, org) ==
  CASE equation = <<"x">> -> org.x
    [] equation = <<"x", ">", "0">> -> IF org.x > 0 THEN 1 ELSE 0
    [] OTHER -> 0

\* BuildTraitEquation, lines 48-52: preprocess, then compile.
BuildTraitEquation(equation, r) ==
  LET pre == PreprocessRun(equation, r) IN
    [compiled |-> pre.out, calls |-> pre.calls]

UnknownFilterError(mode, trait_fun) ==
  [msg |-> "Unknown trait filter", mode |-> mode, trait |-> trait_fun]

\* a variant of lines 129-152 with the test of lines 159-162 added
StringSummary_Checked(trait_fun, mode) ==
  IF HasCollectFun(mode)
    THEN [kind |-> "fun", branch |-> "string", compiled |-> <<>>,
          calls |-> <<>>, errors |-> <<>>]
    ELSE [kind |-> "zero", branch |-> "string", compiled |-> <<>>,
          calls |-> <<>>,
          errors |-> << UnknownFilterError(mode, trait_fun) >>]

\* lines 129-152: the summary of a single non-numeric trait.  The result of
\* BuildCollectFun is wrapped or returned without a test.
StringSummary(trait_fun, mode) ==
  [kind |-> IF HasCollectFun(mode) THEN "fun" ELSE "nofun",
   branch |-> "string", compiled |-> <<>>, calls |-> <<>>,
   errors |-> <<>>]

\* a variant of lines 155-175 without the test of lines 159-162
NumericSummary_Unchecked(trait_fun, mode, r) ==
  LET eq == BuildTraitEquation(trait_fun, r) IN
    [kind |-> IF HasCollectFun(mode) THEN "fun" ELSE "nofun",
     branch |-> "numeric", compiled |-> <<eq.compiled>>,
     calls |-> eq.calls, errors |-> <<>>]

\* lines 155-175: the summary of a numeric equation.
NumericSummary(trait_fun, mode, r) ==
  LET eq == BuildTraitEquation(trait_fun, r) IN
    IF ~HasCollectFun(mode)
      THEN [kind |-> "zero", branch |-> "numeric",
            compiled |-> <<eq.compiled>>, calls |-> eq.calls,
            errors |-> << UnknownFilterError(mode, trait_fun) >>]
      ELSE [kind |-> "fun", branch |-> "numeric",
            compiled |-> <<eq.compiled>>, calls |-> eq.calls,
            errors |-> <<>>]

\* BuildTraitSummary<FROM_T,TO_T>(trait_fun, mode, data_layout), lines
\* 111-176, called with the raw string raw_fun: what it built, what it
\* reported, and which texts it preprocessed and evaluated on the way.
BuildTraitSummary(raw_fun, mode, r) ==
  LET pre == PreprocessRun(raw_fun, r)                       \* line 122
      trait_fun == pre.out
      built == IF is_identifier(trait_fun) /\ HasName(trait_fun)
                    /\ ~IsNumeric(trait_fun)
                 THEN StringSummary(trait_fun, mode)
                 ELSE NumericSummary(trait_fun, mode, r)
  IN  [kind |-> built.kind, branch |-> built.branch, mode |-> mode,
       trait_fun |-> trait_fun,
       compiled |-> built.compiled,
       preprocessed |-> IF built.branch = "numeric"
                          THEN <<raw_fun, trait_fun>> ELSE <<raw_fun>>,
       exec_calls |-> pre.calls \o built.calls,
       errors |-> built.errors]

\* The per-organism values get_fun yields over a container (lines 136-138
\* for a string trait, line 51 for an equation).
OrgValues(summary, container) ==
  IF summary.branch = "string"
    THEN [k \in 1..Len(container) |-> LitText(container[k].s)]
    ELSE [k \in 1..Len(container) |->
            MathValue(summary.compiled[1], container[k])]

\* Calling the callable BuildTraitSummary returned on a container (a
\* Population is first turned into a Collection of its organisms): the value
\* that comes back, or std::bad_function_call when the std::function from
\* BuildCollectFun is empty.
ApplySummary(summary, TO_T, container) ==
  CASE summary.kind = "zero" ->
         [outcome |-> "returned", result |-> ZeroOf(TO_T), reduced |-> FALSE]
    [] summary.kind = "nofun" ->
         [outcome |-> "bad_function_call", result |-> ZeroOf(TO_T),
          reduced |-> FALSE]
    [] OTHER ->
         LET text == Reduce(summary.mode, OrgValues(summary, container),
                            summary.branch = "numeric")
         IN  [outcome |-> "returned",
              result |-> IF TO_T = "double" THEN from_string_double(text)
                                            ELSE StringResult(text),
              reduced |-> TRUE]

QueryIdle ==
  q = [op |-> "none"]

Args(op, FROM_T, TO_T, mode, equation, container, default_val) ==
  [op |-> op, from_t |-> FROM_T, to_t |-> TO_T, mode |-> mode,
   equation |-> equation, container |-> container,
   default_val |-> default_val]

\* the same call with the text its evaluator returns noted in the record
Evaluating(record, r) == record @@ [eval_text |-> r]

QueryRecord(args, summary_built, summary, applied) ==
  [op |-> args.op, from_t |-> args.from_t, to_t |-> args.to_t,
   mode |-> args.mode, equation |-> args.equation,
   container |-> args.container, default_val |-> args.default_val,
   summary_built |-> summary_built,
   branch |-> summary.branch,
   trait_fun |-> summary.trait_fun,
   preprocessed |-> summary.preprocessed,
   exec_calls |-> summary.exec_calls,
   compiled |-> summary.compiled,
   errors |-> summary.errors,
   reduced |-> applied.reduced,
   outcome |-> applied.outcome,
   result |-> applied.result]

\* what a call that built no summary leaves behind
NoSummary ==
  [kind |-> "none", branch |-> "none", mode |-> "", trait_fun |-> <<>>,
   compiled |-> <<>>, preprocessed |-> <<>>, exec_calls |-> <<>>,
   errors |-> <<>>]

\* a variant of lines 183-187 without the IsEmpty test of line 184
TraitFunctionCall_NoGuard(args, r) ==
  LET summary == BuildTraitSummary(args.equation, args.mode, r) IN
    QueryRecord(args, TRUE, summary,
                ApplySummary(summary, args.to_t, args.container))

\* The function BuildTraitFunction<FROM_T,TO_T>(fun_type, default_val)
\* returns, called on (pop, equation): lines 183-187.  args holds FROM_T,
\* TO_T, fun_type (mode), default_val, pop (container) and equation.
TraitFunctionCall(args, r) ==
  IF args.container = <<>>                                   \* line 184
    THEN QueryRecord(args, FALSE, NoSummary,
                     [outcome |-> "returned", result |-> args.default_val,
                      reduced |-> FALSE])
    ELSE LET summary == BuildTraitSummary(args.equation, args.mode, r) IN
           QueryRecord(args, TRUE, summary,
                       ApplySummary(summary, args.to_t, args.container))

\* A member function registered through BuildTraitFunction (lines 226-251
\* and 281-306) is called from a script.  No call leaves state behind for
\* the next one, so one call per behaviour is followed.
CallTraitFunction ==
  /\ q.op = "none"
  /\ \E FROM_T \in FromTypes, TO_T \in ToTypes, fun_type \in Modes,
       pop \in Containers, equation \in Equations,
       r \in QueryEvalResults :
      \E default_val \in DefaultsOf(TO_T) :
        /\ q' = Evaluating(TraitFunctionCall(
                  Args("TraitFunction", FROM_T, TO_T, fun_type, equation,
                       pop, default_val), r), r)
        /\ UNCHANGED <<pvars, mvars>>

\* BuildTraitSummary is called and the callable it returns is applied to a
\* container.
CallTraitSummary ==
  /\ q.op = "none"
  /\ \E FROM_T \in FromTypes, TO_T \in ToTypes, mode \in Modes,
       container \in Containers, trait_fun \in Equations,
       r \in QueryEvalResults :
      LET summary == BuildTraitSummary(trait_fun, mode, r) IN
        /\ q' = Evaluating(QueryRecord(
                  Args("TraitSummary", FROM_T, TO_T, mode, trait_fun,
                       container, ZeroOf(TO_T)),
                  TRUE, summary, ApplySummary(summary, TO_T, container)), r)
        /\ UNCHANGED <<pvars, mvars>>

\* A Collection: the positions of its organisms in the container they were
\* taken from (0-based), in the collection's iteration order, which is the
\* order of positions.  iterator is the text of the value an iterator was
\* placed at to make the collection, NoIterator when none was.
NoIterator == [kind |-> "none"]
Collection(orgs, iterator) ==
  [type |-> "collection", orgs |-> orgs, iterator |-> iterator]
EmptyCollection == Collection(<<>>, NoIterator)

\* Collection::Insert(it): the position joins the collection once
Insert(orgs, pos) ==
  IF \E k \in 1..Len(orgs) : orgs[k] = pos THEN orgs
  ELSE SelectSeq(orgs, LAMBDA p : p < pos) \o <<pos>>
         \o SelectSeq(orgs, LAMBDA p : p > pos)

\* a variant of line 274 that keeps an organism only when the value is 1
Passes_One(value) == value = 1

\* line 274: if (filter(*it)), a double taken as a condition
Passes(value) == value # 0

\* lines 273-275: the loop over the population, from position k (1-based)
RECURSIVE FilterLoop(_, _, _, _)
FilterLoop(pop, k, compiled, out_collect) ==
  IF k > Len(pop) THEN out_collect
  ELSE FilterLoop(pop, k + 1, compiled,
                  IF Passes(MathValue(compiled, pop[k]))
                    THEN Insert(out_collect, k - 1)
                    ELSE out_collect)

\* Population FILTER, lines 268-279, called on (pop, trait_equation).
FilterCall(args, r) ==
  IF ~(Len(args.container) > 0)                              \* line 271
    THEN QueryRecord(args, FALSE, NoSummary,
                     [outcome |-> "returned", result |-> EmptyCollection,
                      reduced |-> FALSE])
    ELSE LET eq == BuildTraitEquation(args.equation, r)
             built == [NoSummary EXCEPT !.branch = "numeric",
                                        !.trait_fun = args.equation,
                                        !.preprocessed = <<args.equation>>,
                                        !.exec_calls = eq.calls,
                                        !.compiled = <<eq.compiled>>]
         IN  QueryRecord(args, FALSE, built,
               [outcome |-> "returned", reduced |-> FALSE,
                result |-> Collection(
                  FilterLoop(args.container, 1, eq.compiled, <<>>),
                  NoIterator)])

\* pop.IteratorAt(trait_fun(pop)).AsPosition(), lines 257, 265, 312, 320:
\* the collection of the one position the summary's value names.  A value
\* that is not computed here leaves the position open.
AsPosition(value) ==
  Collection(IF value.val.kind = "num" THEN <<value.val.n>> ELSE <<>>,
             value.val)

\* lines 255-257, 263-265, 310-312, 318-320: build the min_id / max_id
\* summary, apply it, place an iterator at the value.
FindExtremal(args, r) ==
  LET summary == BuildTraitSummary(args.equation, args.mode, r)
      applied == ApplySummary(summary, "double", args.container)
  IN  QueryRecord(args, TRUE, summary,
                  [applied EXCEPT !.result = AsPosition(applied.result)])

\* FIND_MIN / FIND_MAX, called on (container, trait_equation).  On an
\* OrgList (lines 309, 317) an empty container returns Collection{}.  On a
\* Population (lines 254, 262) the statement for the empty case is the
\* expression `Collection{};` without a return, and the call goes on.
FindCall(args, r) ==
  IF args.from_t = "Collection" /\ args.container = <<>>
    THEN QueryRecord(args, FALSE, NoSummary,
                     [outcome |-> "returned", result |-> EmptyCollection,
                      reduced |-> FALSE])
    ELSE FindExtremal(args, r)

\* FILTER is called on a Population from a script.
CallFilter ==
  /\ q.op = "none"
  /\ \E pop \in Containers, equation \in Equations,
       r \in QueryEvalResults :
      /\ q' = Evaluating(FilterCall(
                Args("FILTER", "Population", "Collection", "", equation,
                     pop, EmptyCollection), r), r)
      /\ UNCHANGED <<pvars, mvars>>

\* FIND_MIN is called on a Population or an OrgList from a script.
CallFindMin ==
  /\ q.op = "none"
  /\ \E FROM_T \in FromTypes, container \in Containers,
       equation \in Equations, r \in QueryEvalResults :
      /\ q' = Evaluating(FindCall(
                Args("FIND_MIN", FROM_T, "Collection", "min_id", equation,
                     container, EmptyCollection), r), r)
      /\ UNCHANGED <<pvars, mvars>>

\* FIND_MAX is called on a Population or an OrgList from a script.
CallFindMax ==
  /\ q.op = "none"
  /\ \E FROM_T \in FromTypes, container \in Containers,
       equation \in Equations, r \in QueryEvalResults :
      /\ q' = Evaluating(FindCall(
                Args("FIND_MAX", FROM_T, "Collection", "max_id", equation,
                     container, EmptyCollection), r), r)
      /\ UNCHANGED <<pvars, mvars>>

QueryNext ==
  \/ CallTraitFunction
  \/ CallTraitSummary
  \/ CallFilter
  \/ CallFindMin
  \/ CallFindMax

Init == PreInit /\ ModuleInit /\ QueryIdle
Next == Preprocess
Spec == Init /\ [][Next]_vars

\* Preprocess is straight-line code in one thread: a step that can be taken
\* is taken.
FairSpec == Init /\ [][Next]_vars /\ WF_vars(Next)

\* a module declaring its traits
ModuleStart == ModuleInit /\ PreIdle /\ QueryIdle
ModuleSpec == ModuleStart /\ [][ModuleNext]_vars

\* a module declaring its traits through the four helpers only
HelperNext ==
  \/ AddPrivateTrait
  \/ AddOwnedTrait
  \/ AddSharedTrait
  \/ AddSharedTraitDefault
  \/ AddRequiredTrait

HelperSpec == ModuleStart /\ [][HelperNext]_vars

\* a script calling the trait query functions
QueryStart == QueryIdle /\ PreIdle /\ ModuleInit
QuerySpec == QueryStart /\ [][QueryNext]_vars

\* ------------------------------------------------ properties: Preprocess
Dollars(n) == [k \in 1..n |-> "$"]

IsPrefix(p, s) == Len(p) <= Len(s) /\ SubSeq(s, 1, Len(p)) = p

\* number of open minus number of close braces in positions a..b of s
Depth(s, a, b) ==
  Cardinality({k \in a..b : At(s, k) = "{"})
    - Cardinality({k \in a..b : At(s, k) = "}"})

\* e holds the '}' that balances the '{' at position p
IsMatch(s, p, e) ==
  /\ At(s, p) = "{"
  /\ e > p
  /\ e < Len(s)
  /\ At(s, e) = "}"
  /\ Depth(s, p, e) = 0
  /\ \A k \in p..(e - 1) : Depth(s, p, k) > 0

HasMatch(s, p) == \E e \in (p + 1)..(Len(s) - 1) : IsMatch(s, p, e)

\* number of "${" occurrences in s
CountTags(s) ==
  Cardinality({k \in 0..(Len(s) - 2) : At(s, k) = "$" /\ At(s, k + 1) = "{"})

\* the scan stopped at a "${" that has no end brace
StoppedAtUnmatched ==
  \/ last.act = "NoEndBrace"
  \/ /\ last.act = "BreakNoRoom"
     /\ Len(out_string) = i + 2
     /\ At(out_string, i + 1) = "{"

\* C3 (as claimed): every "$$" pair the scan meets is replaced by one '$',
\* also when the pair is the last two characters; Preprocess("$$") = "$".
C3_Claim ==
  /\ (pc = "done" /\ in_string = <<"$", "$">>) => out_string = <<"$">>
  /\ ~(/\ last.act = "BreakNoRoom"
       /\ Len(out_string) = i + 2
       /\ At(out_string, i + 1) = "$")

\* C4: a "${" with a balancing '}' is evaluated: the evaluator gets exactly
\* the text strictly between the outer braces, and the span from '$' through
\* the balancing '}' is replaced by the result, the text before and after it
\* staying in place; a "${" is left unevaluated only when nothing balances it.
C4_MatchedTagReplaced ==
  /\ last.act = "EvalTag" =>
       LET o == last.out  p == last.i  e == last.end_pos IN
         /\ IsMatch(o, p + 1, e)
         /\ Len(calls) = last.ncalls + 1
         /\ calls[Len(calls)] = SubSeq(o, p + 3, e)
         /\ out_string = SubSeq(o, 1, p) \o last.new_text
                           \o SubSeq(o, e + 2, Len(o))
  /\ StoppedAtUnmatched => ~HasMatch(last.out, last.i + 1)

C4_Witness ==
  /\ pc = "done"
  /\ in_string = <<"a", "$", "{", "a", "}", "a">>
  /\ calls = << <<"a">> >>
  /\ out_string = <<"a", "b", "a">>

C4_WitnessNested ==
  /\ last.act = "EvalTag"
  /\ last.out = <<"$", "{", "{", "}", "}", "a">>
  /\ calls = << <<"{", "}">> >>

\* C5: at a "${" without an end brace the scan stops and returns: no
\* evaluator call is made for it, the text from the "${" to the end is the
\* input's own tail, character for character, and the text before it is the
\* text processed so far.
C5_UnmatchedLeftVerbatim ==
  StoppedAtUnmatched =>
    /\ pc = "done"
    /\ Len(calls) = last.ncalls
    /\ out_string = last.out
    /\ i = last.i
    /\ LET n == Len(out_string) - i IN
         SubSeq(out_string, i + 1, Len(out_string))
           = SubSeq(in_string, Len(in_string) - n + 1, Len(in_string))

C5_Witness ==
  /\ last.act = "NoEndBrace"
  /\ pc = "done"
  /\ in_string = <<"$", "$", "a", "$", "{", "$">>
  /\ out_string = <<"$", "a", "$", "{", "$">>

\* C6 (as claimed): after a span was replaced the scan resumes at the first
\* character that follows the spliced-in text.
C6_Claim ==
  last.act = "EvalTag" => i = last.i + Len(last.new_text)

\* C7: the scan never reads a character the evaluator returned: everything
\* from the scan index on is text of the input, every evaluator result stays
\* in the output as returned, and there are at most as many evaluator calls
\* as the input has "${" occurrences.
C7_NoRescan ==
  /\ pc = "loop" => \A k \in (i + 1)..Len(out_string) : prov[k] # 0
  /\ \A n \in 1..Len(splices) :
       LET sp == splices[n] IN
         /\ sp.pos + Len(sp.text) <= Len(out_string)
         /\ SubSeq(out_string, sp.pos + 1, sp.pos + Len(sp.text)) = sp.text
         /\ \A k \in (sp.pos + 1)..(sp.pos + Len(sp.text)) : prov[k] = 0
  /\ Len(calls) = Len(splices)
  /\ Len(calls) <= CountTags(in_string)

C7_Witness ==
  /\ pc = "done"
  /\ Len(splices) = 1
  /\ splices[1].text = <<"$", "{", "b", "}">>
  /\ out_string = <<"a", "$", "{", "b", "}", "a">>

\* positions a..a+n-1 (1-based) of s hold a run of exactly n '$' that is
\* followed by a character other than '$' and '{'
RunAt(s, a, n) ==
  /\ a + n <= Len(s)
  /\ \A m \in a..(a + n - 1) : s[m] = "$"
  /\ s[a + n] \notin {"$", "{"}
  /\ a > 1 => s[a - 1] # "$"

\* how many characters of positions a..a+n-1 of the input are in the output
Survivors(a, n) ==
  Cardinality({p \in 1..Len(out_string) : prov[p] \in a..(a + n - 1)})

\* no "${" begins before position a of s
NoTagBefore(s, a) ==
  \A m \in 1..(a - 2) : ~(s[m] = "$" /\ s[m + 1] = "{")

\* C8 (as claimed): the '$' left by compressing "$$" is never read again
\* as the start of a tag or an escape: the scan index is past it, "$${a}"
\* yields "${a}" without an evaluator call, and every run of 2k '$' that
\* is followed by a character other than '$' and '{' leaves exactly k '$'
\* in the result, wherever in the input the run lies.
C8_Claim ==
  /\ \A p \in kept : p < i /\ At(out_string, p) = "$"
  /\ (pc = "done" /\ in_string = <<"$", "$", "{", "a", "}">>) =>
       (out_string = <<"$", "{", "a", "}">> /\ calls = <<>>)
  /\ pc = "done" =>
       \A a \in 1..Len(in_string) : \A k \in 1..Len(in_string) :
         RunAt(in_string, a, 2 * k) => Survivors(a, 2 * k) = k

\* C8 (amended): the '$' left by compressing "$$" is never read again as
\* the start of a tag or an escape: the scan index is past it, "$${a}"
\* yields "${a}" without an evaluator call, and a run of 2k '$' that is
\* followed by a character other than '$' and '{' and has no "${" before
\* it leaves exactly k '$': the result begins with the processed text
\* before the run, k '$' and the character that followed.
C8_CollapsedNotReinterpreted ==
  /\ \A p \in kept : p < i /\ At(out_string, p) = "$"
  /\ (pc = "done" /\ in_string = <<"$", "$", "{", "a", "}">>) =>
       (out_string = <<"$", "{", "a", "}">> /\ calls = <<>>)
  /\ pc = "done" =>
       \A a \in 1..Len(in_string) : \A k \in 1..Len(in_string) :
         (RunAt(in_string, a, 2 * k) /\ NoTagBefore(in_string, a)) =>
           /\ Survivors(a, 2 * k) = k
           /\ IsPrefix(PreprocessRun(SubSeq(in_string, 1, a - 1), <<>>).out
                         \o Dollars(k) \o <<in_string[a + 2 * k]>>,
                       out_string)

\* a run of two '$' after text that holds a '$' of its own
C8_Witness ==
  /\ pc = "done"
  /\ in_string = <<"$", "a", "$", "$", "a">>
  /\ out_string = <<"$", "a", "$", "a">>

C8_WitnessStart ==
  /\ pc = "done"
  /\ in_string = <<"$", "$", "$", "$", "a">>
  /\ out_string = <<"$", "$", "a">>

C8_WitnessTag ==
  /\ pc = "done"
  /\ in_string = <<"$", "$", "{", "a", "}">>
  /\ out_string = <<"$", "{", "a", "}">>

\* C16: Preprocess returns on every input when the evaluator returns: the
\* scan index is never moved back and is larger after every loop iteration
\* that goes on, the loop body runs at most once per character of the
\* input, and an iteration makes at most one evaluator call.  last.iters
\* counts the runs of the loop body.
C16_SingleForwardPass ==
  /\ [][ /\ i' >= i
         /\ (pc' = "loop" => i' > i)
         /\ last'.iters <= last.iters + 1
         /\ Len(calls') - Len(calls) <= last'.iters - last.iters ]_vars
  /\ [](last.iters <= Len(in_string) /\ Len(calls) <= last.iters)
  /\ <>(pc = "done")

C16_Witness ==
  /\ pc = "done"
  /\ in_string = <<"$", "$", "a", "$", "{", "}">>
  /\ last.iters = 3
  /\ Len(calls) = 1

\* --------------------------------------------------- properties: Module
IsDeclaration(op) ==
  op \in {"AddTrait", "AddTraitDefault", "AddPrivateTrait", "AddOwnedTrait",
          "AddSharedTrait", "AddSharedTraitDefault", "AddRequiredTrait"}

\* C1: in every sequence of AddTrait declarations on a module, whatever
\* registry the module started with, a declaration of a name already in
\* trait_map appends exactly one error, a declaration of a new name appends
\* none, either returns the handle of the object now registered, and no
\* declaration (nor SetDefault, nor copying the module) removes an error;
\* so the number of errors in a registry is the number of declarations
\* that built it minus the number of distinct names declared; for a
\* module made by the copy or the move constructor the declarations that
\* built the registry it was given are counted with its own.
C1_DuplicateErrors ==
  /\ Len(errors) = ndecl - Cardinality(declared)
  /\ mlast.op # "MoveFrom" => IsPrefix(mlast.errors_before, errors)
  /\ IsDeclaration(mlast.op) =>
       /\ Len(errors) = Len(mlast.errors_before) + (IF mlast.dup THEN 1 ELSE 0)
       /\ mlast.ret \in 1..Len(heap)
       /\ heap[mlast.ret].name = mlast.name
       /\ trait_map[mlast.name] = mlast.ret

\* the second of two duplicate declarations of one name
C1_Witness ==
  /\ IsDeclaration(mlast.op)
  /\ mlast.dup
  /\ Len(mlast.errors_before) = 1
  /\ ndecl = 3
  /\ Cardinality(declared) = 1
  /\ Len(errors) = 2

\* a module made by the copy constructor from one that holds an error
C1_WitnessCopy ==
  /\ mlast.op = "Copy"
  /\ ndecl = 2
  /\ Len(errors) = 1

\* a duplicate declaration on a module that was moved from earlier
C1_WitnessMoved ==
  /\ IsDeclaration(mlast.op)
  /\ mlast.dup
  /\ Len(heap) = 3
  /\ ndecl = 2
  /\ Len(errors) = 1

\* C2 (as claimed): after a name is declared a second time with another
\* access mode, trait_map still holds the first declaration's access mode.
C2_Claim ==
  (IsDeclaration(mlast.op) /\ mlast.dup /\ mlast.access # mlast.prev_access)
    => heap[trait_map[mlast.name]].access = mlast.prev_access

\* C12 (as claimed): HasDefault() is true of a declared trait exactly when
\* a default value was supplied for it, in the declaration or later by
\* SetDefault; a trait declared with access, name and description only
\* reports FALSE until SetDefault is called.
C12_Claim ==
  \A h \in 1..Len(heap) : HasDefault(heap[h]) <=> (h \in supplied)

\* C13 (as claimed): in a registry built through AddPrivateTrait,
\* AddOwnedTrait, AddSharedTrait and AddRequiredTrait, every trait whose
\* access mode is REQUIRED has no default value.
C13_Claim ==
  \A n \in Names :
    (Has(trait_map, n) /\ heap[trait_map[n]].access = "REQUIRED")
      => ~HasDefault(heap[trait_map[n]])

\* ------------------------------------------- properties: trait queries
\* C9: a function made by BuildTraitFunction, called on an empty container,
\* returns the default value it was made with and does nothing else: no
\* text is preprocessed, the evaluator is not called, no summary is built,
\* no equation compiled, no reducer invoked and no error reported,
\* whatever the mode, the container type and the equation are.
C9_EmptyReturnsDefault ==
  (q.op = "TraitFunction" /\ q.container = <<>>) =>
    /\ q.outcome = "returned"
    /\ q.result = q.default_val
    /\ q.preprocessed = <<>>
    /\ q.exec_calls = <<>>
    /\ ~q.summary_built
    /\ q.compiled = <<>>
    /\ ~q.reduced
    /\ q.errors = <<>>

C9_Witness ==
  /\ q.op = "TraitFunction"
  /\ q.container = <<>>
  /\ q.from_t = "Population"
  /\ q.mode = "mean"
  /\ q.equation = <<"$", "{", "a", "}">>
  /\ q.result = [type |-> "double", val |-> NumText(7)]

\* C10 (as claimed): for a mode string without a reducer, BuildTraitSummary
\* reports an error naming the mode and the trait string, and the callable
\* it returns yields 0.0 or the empty string for every container, for a
\* numeric equation and for a string trait alike.
C10_Claim ==
  (q.op = "TraitSummary" /\ ~HasCollectFun(q.mode)) =>
    /\ q.errors = << UnknownFilterError(q.mode, q.trait_fun) >>
    /\ q.outcome = "returned"
    /\ q.result = ZeroOf(q.to_t)

\* the positions (0-based) of the organisms of container for which the
\* compiled equation is not zero
PassingPositions(compiled, container) ==
  {k - 1 : k \in {j \in 1..Len(container) :
                    MathValue(compiled, container[j]) # 0}}

\* C11: FILTER on a population returns the collection of exactly the
\* organisms for which the compiled equation is not zero, each once and in
\* the population's order; an empty population gives an empty collection
\* and no equation is preprocessed or compiled for it.
C11_FilterKeepsNonZero ==
  q.op = "FILTER" =>
    /\ q.outcome = "returned"
    /\ q.result.type = "collection"
    /\ IF q.container = <<>>
         THEN /\ q.result.orgs = <<>>
              /\ q.preprocessed = <<>>
              /\ q.exec_calls = <<>>
              /\ q.compiled = <<>>
         ELSE /\ Len(q.compiled) = 1
              /\ LET orgs == q.result.orgs IN
                   /\ \A k \in 1..(Len(orgs) - 1) : orgs[k] < orgs[k + 1]
                   /\ {orgs[k] : k \in 1..Len(orgs)}
                        = PassingPositions(q.compiled[1], q.container)

C11_Witness ==
  /\ q.op = "FILTER"
  /\ q.equation = <<"x", ">", "0">>
  /\ Len(q.container) = 2
  /\ q.container[1].x = 0
  /\ q.container[2].x = 2
  /\ q.result.orgs = <<1>>

\* C14 (as claimed): BuildTraitSummary preprocesses the raw string once:
\* what decides the representation and what reaches the equation compiler
\* is the result of one Preprocess pass over the raw string, and the
\* evaluator calls made are those of that one pass.
C14_Claim ==
  (q.op # "none" /\ q.summary_built) =>
    LET once == PreprocessRun(q.equation, q.eval_text) IN
      /\ q.trait_fun = once.out
      /\ q.exec_calls = once.calls
      /\ q.branch = "numeric" => q.compiled = <<once.out>>

\* C15 (as claimed): FIND_MIN and FIND_MAX, on a Population as on an
\* OrgList: a non-empty container gives the collection of the one organism
\* at the index the min_id / max_id summary yields; an empty container
\* gives an empty collection, no summary is built and no iterator placed.
C15_Claim ==
  q.op \in {"FIND_MIN", "FIND_MAX"} =>
    IF q.container = <<>>
      THEN /\ q.result = EmptyCollection
           /\ ~q.summary_built
           /\ q.compiled = <<>>
      ELSE /\ q.summary_built
           /\ q.result.iterator # NoIterator
           /\ q.branch = "numeric" =>
                LET vals == [k \in 1..Len(q.container) |->
                               MathValue(q.compiled[1], q.container[k])]
                    best == IF q.op = "FIND_MIN" THEN SeqMin(vals)
                                                 ELSE SeqMax(vals)
                IN  q.result.orgs = <<FirstIndex(vals, best) - 1>>

\* ------------------------------------------------------- sanity checks
TypeOK ==
  /\ pc \in {"loop", "done"}
  /\ i \in Nat
  /\ Len(prov) = Len(out_string)

\* PreprocessRun returns what the loop actions arrive at when every
\* evaluator call returned the same text.
RunAgreesWithSteps ==
  pc = "done" =>
    \A r \in EvalResults :
      (\A n \in 1..Len(splices) : splices[n].text = r) =>
        /\ PreprocessRun(in_string, r).out = out_string
        /\ PreprocessRun(in_string, r).calls = calls
====
